---- MODULE Spec2Model ----
(***************************************************************************)
(* A model of cargo-pack's library (src/lib.rs): the path lookup over a    *)
(* TOML value tree, the package resolution among workspace members, the    *)
(* manifest pipeline (resolve, read, parse, lookup, decode) and the        *)
(* CargoPack facade with its accessors.                                    *)
(*                                                                         *)
(* Strings that the code inspects character by character (path segments,   *)
(* table keys) are tuples of one-character strings; strings the code only  *)
(* compares or carries (file names, package names) are TLA+ strings.       *)
(***************************************************************************)
EXTENDS Integers, Sequences, FiniteSets, TLC

VARIABLES
    \* ---- the lookup harness: one call of lookup(value, path) ----
    lk_value,      \* the `value` argument of lookup
    lk_path,       \* the `path` argument of lookup
    lk_ret,        \* what the call returned (lk_done says whether it ran)
    lk_done,
    \* ---- the environment of the facade ----
    discovery,     \* outcome of find_root_manifest_for_wd / Workspace::new
    members,       \* names of the workspace members; member i has manifest i
    current,       \* index of the workspace's current member, 0 if it has none
    disk,          \* disk[i]: the manifest file of member i
    \* ---- the program ----
    pc,            \* "start", "ready" (facade built), "failed", "aborted"
    facade,        \* the CargoPack value: ws, package_name, pack_config
    ret,           \* the latest call and what it returned
    last_decode,   \* latest decode_from_manifest outcome, unless the manifest
                   \* it read was written since
    prev_decode    \* last_decode as it was before the latest decode call

lk_vars == <<lk_value, lk_path, lk_ret, lk_done>>
env_vars == <<discovery, members, current, disk>>
prog_vars == <<pc, facade, ret, last_decode, prev_decode>>
vars == <<lk_value, lk_path, lk_ret, lk_done, discovery, members, current,
          disk, pc, facade, ret, last_decode, prev_decode>>

----------------------------------------------------------------------------
(* Bounds of the model.                                                    *)

MaxLen == 2        \* longest Array in a generated value tree
MaxPath == 2       \* longest path handed to lookup
MaxMembers == 2    \* most workspace members

----------------------------------------------------------------------------
(* Option<T>                                                               *)

Some(x) == [some |-> TRUE, v |-> x]

\* toml::Value, a tagged union; Integer, Float and Datetime behave as the
\* String and Boolean scalars in every place the code looks at them.
VString(s) == [kind |-> "String", val |-> s]
VBoolean(b) == [kind |-> "Boolean", val |-> b]
VArray(seq) == [kind |-> "Array", val |-> seq]
VTable(map) == [kind |-> "Table", val |-> map]

NoValue == VBoolean(FALSE)
None == [some |-> FALSE, v |-> NoValue]

----------------------------------------------------------------------------
(* str::parse::<usize>: an optional leading "+", then one or more decimal  *)
(* digits; anything else (empty, a lone sign, "-", a letter) is an error.  *)
(* Overflow of usize needs 20 digits and is out of the segments' reach.    *)

Digits == <<"0", "1", "2", "3", "4", "5", "6", "7", "8", "9">>

IsDigit(c) == \E d \in 1..Len(Digits) : Digits[d] = c

DigitValue(c) == (CHOOSE d \in 1..Len(Digits) : Digits[d] = c) - 1

RECURSIVE DigitsValue(_, _)
DigitsValue(s, acc) ==
    IF s = <<>> THEN acc
    ELSE DigitsValue(Tail(s), acc * Len(Digits) + DigitValue(Head(s)))

parse_usize_lenient(key) ==
    \* mutation: a non-numeric segment is taken as index 0
    LET body == IF Len(key) > 1 /\ Head(key) = "+" THEN Tail(key) ELSE key
    IN  IF body # <<>> /\ \A i \in 1..Len(body) : IsDigit(body[i])
        THEN [some |-> TRUE, v |-> DigitsValue(body, 0)]
        ELSE [some |-> TRUE, v |-> 0]

parse_usize(key) ==
    LET body == IF Len(key) > 1 /\ Head(key) = "+" THEN Tail(key) ELSE key
    IN  IF body # <<>> /\ \A i \in 1..Len(body) : IsDigit(body[i])
        THEN [some |-> TRUE, v |-> DigitsValue(body, 0)]
        ELSE [some |-> FALSE, v |-> 0]

----------------------------------------------------------------------------
(* The two removals lookup uses to take ownership of a child.              *)

\* BTreeMap::remove(key): the value stored under key, if any, and the map
\* without it.
BTreeMap_remove_any(hm, key) ==
    \* mutation: a missing key yields some other entry of the table
    IF key \in DOMAIN hm
    THEN [removed |-> Some(hm[key]),
          rest |-> [k \in (DOMAIN hm) \ {key} |-> hm[k]]]
    ELSE IF DOMAIN hm # {}
         THEN [removed |-> Some(hm[CHOOSE k \in DOMAIN hm : TRUE]), rest |-> hm]
         ELSE [removed |-> None, rest |-> hm]

BTreeMap_remove(hm, key) ==
    IF key \in DOMAIN hm
    THEN [removed |-> Some(hm[key]),
          rest |-> [k \in (DOMAIN hm) \ {key} |-> hm[k]]]
    ELSE [removed |-> None, rest |-> hm]

\* Vec::remove(idx), idx < len: the element at the 0-based idx, and the
\* vector with the later elements shifted down by one.
Vec_remove_shifted(v, idx) ==
    \* mutation: the element is read after the shift, at the same index
    LET rest == SubSeq(v, 1, idx) \o SubSeq(v, idx + 2, Len(v))
    IN  [removed |-> IF idx + 1 <= Len(rest) THEN rest[idx + 1] ELSE v[idx + 1],
         rest |-> rest]

Vec_remove(v, idx) ==
    [removed |-> v[idx + 1],
     rest |-> SubSeq(v, 1, idx) \o SubSeq(v, idx + 2, Len(v))]

----------------------------------------------------------------------------
(* fn lookup(mut value: Value, path: &[&str]) -> Option<Value>             *)

RECURSIVE lookup_first(_, _)
lookup_first(value, path) ==
    \* mutation: an empty path is answered with the first child, not the value
    IF path = <<>>
    THEN IF value.kind = "Array" /\ value.val # <<>>
         THEN Some(value.val[1]) ELSE Some(value)
    ELSE LET key == Head(path) IN
         IF value.kind = "Table" THEN
              LET r == BTreeMap_remove(value.val, key)
              IN  IF r.removed.some THEN lookup_first(r.removed.v, Tail(path))
                  ELSE None
         ELSE IF value.kind = "Array" THEN
              LET p == parse_usize(key)
              IN  IF p.some /\ p.v < Len(value.val)
                  THEN lookup_first(Vec_remove(value.val, p.v).removed,
                                    Tail(path))
                  ELSE None
         ELSE None

RECURSIVE lookup(_, _)
lookup(value, path) ==
    IF path = <<>> THEN Some(value)
    ELSE LET key == Head(path) IN
         IF value.kind = "Table" THEN
              \* removing to take the ownership
              LET r == BTreeMap_remove(value.val, key)
              IN  IF r.removed.some THEN lookup(r.removed.v, Tail(path))
                  ELSE None
         ELSE IF value.kind = "Array" THEN
              LET p == parse_usize(key)
              IN  IF p.some /\ p.v < Len(value.val)
                  THEN lookup(Vec_remove(value.val, p.v).removed, Tail(path))
                  ELSE None
         ELSE None

----------------------------------------------------------------------------
(* The value trees and paths lookup is run on.  Table keys include one     *)
(* that looks like an index; segments include indices in and out of range, *)
(* a signed index, a two-digit index and a non-numeric one.  An Array      *)
(* holds elements of one kind, as in every tree the TOML parser builds.    *)

TableKeys == {<<"a">>, <<"1">>}

Segments == {<<"0">>, <<"1">>, <<"a">>, <<"+", "1">>, <<"1", "0">>}

Scalars == {VString("s"), VString("t")}

SeqsUpTo(S, n) == UNION {[1..k -> S] : k \in 0..n}

MapsOver(S) == UNION {[K -> S] : K \in SUBSET TableKeys}

ArraysOver(S) ==
    {a \in SeqsUpTo(S, MaxLen) :
        \A i \in 1..Len(a) : \A j \in 1..Len(a) : a[i].kind = a[j].kind}

\* the values whose children are drawn from S
Build(S) ==
    Scalars \cup {VTable(m) : m \in MapsOver(S)}
            \cup {VArray(a) : a \in ArraysOver(S)}

Values1 == Build(Scalars)

Values2 == Build(Values1)

Paths == SeqsUpTo(Segments, MaxPath)

----------------------------------------------------------------------------
(* Result<T> of the error module (error_chain): a message, or a foreign    *)
(* Io, Toml or Cargo error.  A call either returns a Result or panics.     *)

Ok(x) == [ok |-> TRUE, payload |-> x]

Err(e) == [ok |-> FALSE, payload |-> e]

ErrMsg(text) == [kind |-> "Msg", text |-> text]

ErrIo == [kind |-> "Io", text |-> <<"cannot read manifest">>]

ErrToml(text) == [kind |-> "Toml", text |-> text]

ErrCargo(text) == [kind |-> "Cargo", text |-> <<text>>]

\* how a call ended, and the manifest its debug! line named (0: none)
Returned(r, m) == [how |-> "return", result |-> r, manifest |-> m]

Panicked(msg, m) == [how |-> "panic", result |-> msg, manifest |-> m]

----------------------------------------------------------------------------
(* struct PackConfig, #[serde(rename_all = "kebab-case")]                  *)

NoStrings == [some |-> FALSE, v |-> <<>>]

\* package_name: None
NoName == [some |-> FALSE, v |-> ""]

F_files == <<"f", "i", "l", "e", "s">>

F_default_packers ==
    <<"d", "e", "f", "a", "u", "l", "t", "_", "p", "a", "c", "k", "e", "r", "s">>

\* the manifest-side name of a field of the struct
kebab_case(field) ==
    [i \in 1..Len(field) |-> IF field[i] = "_" THEN "-" ELSE field[i]]

\* Vec<String> from a Value: an Array whose elements are all Strings
DecodeVecString(value) ==
    IF value.kind = "Array"
       /\ \A i \in 1..Len(value.val) : value.val[i].kind = "String"
    THEN Ok([i \in 1..Len(value.val) |-> value.val[i].val])
    ELSE Err(ErrToml(<<"invalid type: ", value.kind>>))

\* Option<Vec<String>> field of a Table: a missing key is None
DecodeOptionField(table, field) ==
    IF kebab_case(field) \in DOMAIN table
    THEN LET r == DecodeVecString(table[kebab_case(field)])
         IN  IF r.ok THEN Ok(Some(r.payload)) ELSE r
    ELSE Ok(NoStrings)

\* Value::try_into::<PackConfig>(); unknown keys are ignored.  The inputs
\* hold a Table or a scalar at the decoded place.
TryIntoPackConfig(data) ==
    IF data.kind = "Table"
    THEN LET f == DecodeOptionField(data.val, F_files)
             d == DecodeOptionField(data.val, F_default_packers)
         IN  IF ~f.ok THEN f
             ELSE IF ~d.ok THEN d
             ELSE Ok([files |-> f.payload, default_packers |-> d.payload])
    ELSE Err(ErrToml(<<"invalid type: ", data.kind>>))

\* the target types T the model decodes into: PackConfig, and toml::Value
\* itself, which decodes from any value as that value
TargetTypes == {"PackConfig", "Value"}

try_into(data, T) ==
    IF T = "PackConfig" THEN TryIntoPackConfig(data) ELSE Ok(data)

----------------------------------------------------------------------------
(* The workspace: its members, each with a name and a manifest path, and   *)
(* its current member.  The manifest path of member i is i.                *)

Package(ws, i) == [name |-> ws.members[i], manifest_path |-> i]

ws_members(ws) == [i \in 1..Len(ws.members) |-> Package(ws, i)]

\* Workspace::current(): an error for a workspace without a current package
ws_current(ws) ==
    IF ws.current = 0
    THEN Err(ErrCargo("manifest path is a virtual manifest"))
    ELSE Ok(Package(ws, ws.current))

\* p.package_id().name() == *name
name_eq_ignore_case(pkg_name, name) ==
    \* mutation: the comparison folds case
    LET lower(n) == IF n = "A" THEN "a" ELSE IF n = "B" THEN "b" ELSE n
    IN  lower(pkg_name) = lower(name)

name_eq(pkg_name, name) == pkg_name = name

Matching(ws, name) ==
    SelectSeq(ws_members(ws), LAMBDA p : name_eq(p.name, name))

----------------------------------------------------------------------------
(* The manifest files.  A file is unreadable, or holds text that is either *)
(* malformed or the TOML of a value tree.                                  *)

FileUnreadable == [status |-> "unreadable", root |-> NoValue]

FileMalformed == [status |-> "malformed", root |-> NoValue]

FileToml(root) == [status |-> "toml", root |-> root]

\* paths::read(manifest)
paths_read(dsk, manifest) ==
    IF dsk[manifest].status = "unreadable" THEN Err(ErrIo)
    ELSE Ok(dsk[manifest])

\* toml::parse(&contents, &manifest, ws.config())
toml_parse(contents) ==
    IF contents.status = "malformed"
    THEN Err(ErrCargo("could not parse input as TOML"))
    ELSE Ok(contents.root)

K_package == <<"p", "a", "c", "k", "a", "g", "e">>

K_metadata == <<"m", "e", "t", "a", "d", "a", "t", "a">>

K_pack == <<"p", "a", "c", "k">>

K_name == <<"n", "a", "m", "e">>

\* &["package", "metadata", "pack"]
PackPath == <<K_package, K_metadata, K_pack>>

----------------------------------------------------------------------------
(* impl CargoPack                                                          *)

\* fn decode_from_manifest_static<T>(ws, package_name) -> Result<T>
decode_from_manifest_static(ws, dsk, package_name, T) ==
    LET names == Matching(ws, package_name.v)
        cur == ws_current(ws)
    IN
    IF package_name.some /\ Len(names) = 0
    THEN Returned(Err(ErrMsg(<<"unknown package ", package_name.v>>)), 0)
    ELSE IF package_name.some /\ Len(names) > 1
    THEN Returned(Err(ErrMsg(<<"ambiguous name ", package_name.v>>)), 0)
    ELSE IF ~package_name.some /\ ~cur.ok
    THEN Returned(cur, 0)
    ELSE
    LET manifest == IF package_name.some THEN names[1].manifest_path
                    ELSE cur.payload.manifest_path
        contents == paths_read(dsk, manifest)
        root == toml_parse(contents.payload)
        data == lookup(root.payload, PackPath)
    IN
    IF ~contents.ok THEN Returned(contents, manifest)
    ELSE IF ~root.ok THEN Returned(root, manifest)
    ELSE IF ~data.some
    THEN Panicked("no package.metadata.pack found in Cargo.toml", manifest)
    ELSE Returned(try_into(data.v, T), manifest)

\* pub fn new(config, package_name) -> Result<Self>
new(disc, ws, dsk, package_name) ==
    IF disc = "no_root"
    THEN Returned(Err(ErrCargo("could not find Cargo.toml")), 0)
    ELSE IF disc = "bad_workspace"
    THEN Returned(Err(ErrCargo("failed to load workspace")), 0)
    ELSE
    LET r == decode_from_manifest_static(ws, dsk, package_name, "PackConfig")
    IN
    IF r.how = "panic" \/ ~r.result.ok THEN r
    ELSE Returned(Ok([ws |-> ws,
                      pack_config |-> r.result.payload,
                      package_name |-> package_name]), r.manifest)

\* pub fn ws(&self) -> &Workspace
ws(self) == self.ws

\* pub fn config(&self) -> &PackConfig
config(self) == self.pack_config

\* pub fn package(&self) -> Result<&Package>
package_swapped(self) ==
    \* mutation: the arms for one match and for several are exchanged
    IF self.package_name.some
    THEN LET packages == Matching(ws(self), self.package_name.v)
         IN  IF Len(packages) = 0
             THEN Err(ErrMsg(<<"unknown package ", self.package_name.v>>))
             ELSE IF Len(packages) = 1
             THEN Err(ErrMsg(<<"ambiguous name ", self.package_name.v>>))
             ELSE Ok(packages[1])
    ELSE ws_current(ws(self))

package(self) ==
    IF self.package_name.some
    THEN LET packages == Matching(ws(self), self.package_name.v)
         IN  IF Len(packages) = 0
             THEN Err(ErrMsg(<<"unknown package ", self.package_name.v>>))
             ELSE IF Len(packages) = 1
             THEN Ok(packages[1])
             ELSE Err(ErrMsg(<<"ambiguous name ", self.package_name.v>>))
    ELSE ws_current(ws(self))

\* pub fn decode_from_manifest<T>(&self) -> Result<T>
decode_from_manifest_consumed(self, dsk, T) ==
    \* mutation: the tree parsed by an earlier call is kept and reused after
    \* lookup has taken the metadata out of it
    IF last_decode.some
    THEN Panicked("no package.metadata.pack found in Cargo.toml", 0)
    ELSE decode_from_manifest_static(ws(self), dsk, self.package_name, T)

decode_from_manifest(self, dsk, T) ==
    decode_from_manifest_static(ws(self), dsk, self.package_name, T)

\* pub fn files(&self) -> &[String]
files_default_packers(self) ==
    \* mutation: the other field of the config is returned
    IF self.pack_config.default_packers.some
    THEN self.pack_config.default_packers.v
    ELSE <<>>

files(self) ==
    IF self.pack_config.files.some THEN self.pack_config.files.v ELSE <<>>

----------------------------------------------------------------------------
(* The facade's environment and the calls made on it.                      *)

MemberNames == {"a", "b"}

RequestedNames == {NoName, Some("a"), Some("b"), Some("A")}

Discoveries == {"ok", "no_root", "bad_workspace"}

Strings(seq) == VArray([i \in 1..Len(seq) |-> VString(seq[i])])

\* a manifest whose [package] table holds, beside the name, `extra`
Manifest(extra) ==
    VTable((K_name :> VString("x")) @@ extra)

PackageOnly(pkg) == VTable(K_package :> pkg)

WithPack(pack) ==
    PackageOnly(Manifest(K_metadata :> VTable(K_pack :> pack)))

ManifestRoots ==
    { PackageOnly(Manifest(<<>>)),                          \* no metadata
      PackageOnly(Manifest(K_metadata :> VTable(<<>>))),    \* no pack
      WithPack(VTable(<<>>)),
      WithPack(VTable((kebab_case(F_files)
                        :> Strings(<<"README.md", "LICENSE">>))
                   @@ (kebab_case(F_default_packers)
                        :> Strings(<<"docker">>)))),
      WithPack(VTable(kebab_case(F_files) :> VString("README.md"))) }

Files ==
    {FileUnreadable, FileMalformed} \cup {FileToml(r) : r \in ManifestRoots}

\* before construction there is no facade; the variable then holds this
NoFacade ==
    [ws |-> [members |-> <<>>, current |-> 0],
     pack_config |-> [files |-> NoStrings, default_packers |-> NoStrings],
     package_name |-> NoName]

NoCall == [op |-> "none", arg |-> "", out |-> ""]

NoDecode == [some |-> FALSE, v |-> [T |-> "", out |-> Returned(Ok(""), 0)]]

Init ==
    /\ discovery \in Discoveries
    /\ \E n \in 1..MaxMembers :
          /\ members \in [1..n -> MemberNames]
          /\ disk \in [1..n -> Files]
    /\ current \in {0, 1}
    /\ pc = "start"
    /\ facade = NoFacade
    /\ ret = NoCall
    /\ last_decode = NoDecode
    /\ prev_decode = NoDecode
    /\ lk_value = NoValue
    /\ lk_path = <<>>
    /\ lk_ret = None
    /\ lk_done = FALSE

\* CargoPack::new(&config, package_name)
New(package_name) ==
    /\ pc = "start"
    /\ LET r == new(discovery, [members |-> members, current |-> current],
                    disk, package_name)
       IN  /\ ret' = [op |-> "new", arg |-> package_name, out |-> r]
           /\ IF r.how = "panic" THEN pc' = "aborted" /\ facade' = facade
              ELSE IF r.result.ok
                   THEN pc' = "ready" /\ facade' = r.result.payload
              ELSE pc' = "failed" /\ facade' = facade
    /\ UNCHANGED <<last_decode, prev_decode, env_vars, lk_vars>>

\* what an accessor call leaves alone: everything but its return value
AccessorFrame ==
    /\ prev_decode' = NoDecode
    /\ UNCHANGED <<pc, facade, last_decode, env_vars, lk_vars>>

\* pack.ws()
Ws ==
    /\ pc = "ready"
    /\ ret' = [op |-> "ws", arg |-> "", out |-> ws(facade)]
    /\ AccessorFrame

\* pack.config()
Config ==
    /\ pc = "ready"
    /\ ret' = [op |-> "config", arg |-> "", out |-> config(facade)]
    /\ AccessorFrame

\* pack.package()
PackageCall ==
    /\ pc = "ready"
    /\ ret' = [op |-> "package", arg |-> "", out |-> package(facade)]
    /\ AccessorFrame

\* pack.files()
FilesCall ==
    /\ pc = "ready"
    /\ ret' = [op |-> "files", arg |-> "", out |-> files(facade)]
    /\ AccessorFrame

\* pack.decode_from_manifest::<T>()
DecodeFromManifest(T) ==
    /\ pc = "ready"
    /\ LET r == decode_from_manifest(facade, disk, T)
       IN  /\ ret' = [op |-> "decode", arg |-> T, out |-> r]
           /\ prev_decode' = last_decode
           /\ last_decode' = Some([T |-> T, out |-> r])
           /\ pc' = IF r.how = "panic" THEN "aborted" ELSE pc
    /\ UNCHANGED <<facade, env_vars, lk_vars>>

\* something outside the program rewrites the manifest file of a member
\* (what the files hold before construction is Init's choice)
WriteManifest(i, file) ==
    /\ pc = "ready"
    /\ i \in DOMAIN disk
    /\ disk[i] # file
    /\ disk' = [disk EXCEPT ![i] = file]
    /\ ret' = [op |-> "write", arg |-> "", out |-> ""]
    /\ last_decode' = IF last_decode.some /\ last_decode.v.out.manifest = i
                      THEN NoDecode ELSE last_decode
    /\ prev_decode' = NoDecode
    /\ UNCHANGED <<pc, facade, discovery, members, current, lk_vars>>

Next ==
    \/ \E package_name \in RequestedNames : New(package_name)
    \/ Ws
    \/ Config
    \/ PackageCall
    \/ FilesCall
    \/ \E T \in TargetTypes : DecodeFromManifest(T)
    \/ \E i \in 1..MaxMembers : \E file \in Files : WriteManifest(i, file)

Spec == Init /\ [][Next]_vars

----------------------------------------------------------------------------
(* The lookup harness.                                                     *)

InitLookup ==
    /\ lk_value \in Values2
    /\ lk_path \in Paths
    /\ lk_ret = None
    /\ lk_done = FALSE
    /\ discovery = "ok"
    /\ members = <<>>
    /\ current = 0
    /\ disk = <<>>
    /\ pc = "start"
    /\ facade = NoFacade
    /\ ret = NoCall
    /\ last_decode = NoDecode
    /\ prev_decode = NoDecode

CallLookup ==
    /\ ~lk_done
    /\ lk_ret' = lookup(lk_value, lk_path)
    /\ lk_done' = TRUE
    /\ UNCHANGED <<lk_value, lk_path, env_vars, prog_vars>>

NextLookup == CallLookup

SpecLookup == InitLookup /\ [][NextLookup]_vars

----------------------------------------------------------------------------
(* Reading a child without removing it: the reference the lookup claims    *)
(* compare against.  An index is read off a segment independently of       *)
(* parse_usize: the decimal text of k, with or without a leading "+".      *)

DecimalText(k) ==
    IF k < Len(Digits) THEN <<Digits[k + 1]>>
    ELSE <<Digits[(k \div Len(Digits)) + 1], Digits[(k % Len(Digits)) + 1]>>

IntegerTexts(k) == {DecimalText(k), <<"+">> \o DecimalText(k)}

Indices == 0..(Len(Digits) * Len(Digits) - 1)

\* every text of an index, and the index each one denotes
IndexTexts == UNION {IntegerTexts(k) : k \in Indices}

IndexOfText ==
    [t \in IndexTexts |-> CHOOSE k \in Indices : t \in IntegerTexts(k)]

IsIndex(seg) == seg \in IndexTexts

IndexOf(seg) == IndexOfText[seg]

ReadChild(node, seg) ==
    IF node.kind = "Table"
    THEN IF seg \in DOMAIN node.val THEN Some(node.val[seg]) ELSE None
    ELSE IF node.kind = "Array"
    THEN IF IsIndex(seg) /\ IndexOf(seg) < Len(node.val)
         THEN Some(node.val[IndexOf(seg) + 1]) ELSE None
    ELSE None

RECURSIVE ReadLookup(_, _)
ReadLookup(node, path) ==
    IF path = <<>> THEN Some(node)
    ELSE LET child == ReadChild(node, Head(path))
         IN  IF child.some THEN ReadLookup(child.v, Tail(path)) ELSE None

Last(path) == path[Len(path)]

\* the node lookup stands on when it takes segment i of the path
NodeBefore(i) == ReadLookup(lk_value, SubSeq(lk_path, 1, i - 1))

----------------------------------------------------------------------------
(* Claims about lookup, under SpecLookup.                                  *)

\* C5: when the node reached before the final segment is an Array of
\* length n, a final segment that is the decimal text of k yields the
\* element at index k if k < n and absent if k >= n, and a final segment
\* that is not the text of a non-negative integer yields absent.
C5_ArrayIndex ==
    (lk_done /\ lk_path # <<>>) =>
        LET node == NodeBefore(Len(lk_path))
            seg == Last(lk_path)
        IN  (node.some /\ node.v.kind = "Array") =>
               /\ IsIndex(seg) =>
                     IF IndexOf(seg) < Len(node.v.val)
                     THEN lk_ret = Some(node.v.val[IndexOf(seg) + 1])
                     ELSE lk_ret = None
               /\ ~IsIndex(seg) => lk_ret = None

C5_Witness ==
    /\ lk_done
    /\ Len(lk_path) = 2
    /\ NodeBefore(2).some
    /\ NodeBefore(2).v.kind = "Array"
    /\ Len(NodeBefore(2).v.val) = 2
    /\ Last(lk_path) = <<"1">>
    /\ lk_ret = Some(NodeBefore(2).v.val[2])
    /\ NodeBefore(2).v.val[1] # NodeBefore(2).v.val[2]

\* C6: if at some segment the current node is a Table without an entry
\* for that segment, lookup returns absent whatever segments follow.
C6_MissingKey ==
    lk_done =>
        \A i \in 1..Len(lk_path) :
            LET node == NodeBefore(i)
            IN  (/\ node.some
                 /\ node.v.kind = "Table"
                 /\ lk_path[i] \notin DOMAIN node.v.val) => lk_ret = None

C6_Witness ==
    /\ lk_done
    /\ Len(lk_path) = 2
    /\ lk_value.kind = "Table"
    /\ DOMAIN lk_value.val # {}
    /\ lk_path[1] \notin DOMAIN lk_value.val
    /\ lk_ret = None

\* C7: lookup with the empty path returns the whole input value, of
\* whatever kind.
C7_EmptyPath ==
    (lk_done /\ lk_path = <<>>) => lk_ret = Some(lk_value)

C7_Witness ==
    /\ lk_done
    /\ lk_path = <<>>
    /\ lk_value.kind = "Array"
    /\ Len(lk_value.val) = 2
    /\ lk_ret = Some(lk_value)

\* C10: the removing lookup returns what the non-removing read returns,
\* for every value and path: dispatch by the kind of the current node
\* only, segments taken left to right.
C10_RemovalIsRead ==
    lk_done => lk_ret = ReadLookup(lk_value, lk_path)

C10_Witness ==
    /\ lk_done
    /\ lk_path = <<<<"1">>, <<"0">>>>
    /\ lk_value.kind = "Table"
    /\ <<"1">> \in DOMAIN lk_value.val
    /\ lk_value.val[<<"1">>].kind = "Array"
    /\ Len(lk_value.val[<<"1">>].val) = 2
    /\ lk_value.val[<<"1">>].val[1] # lk_value.val[<<"1">>].val[2]
    /\ lk_ret = Some(lk_value.val[<<"1">>].val[1])

----------------------------------------------------------------------------
(* Claims about the pipeline and the facade, under Spec.                   *)

UnspecifiedConfig == [files |-> NoStrings, default_packers |-> NoStrings]

\* the workspace the environment offers to CargoPack::new
EnvWorkspace == [members |-> members, current |-> current]

\* the members of workspace w named exactly `name`
Named(w, name) == {i \in 1..Len(w.members) : w.members[i] = name}

\* C1 (as claimed): when the parsed manifest of the resolved package has
\* nothing at package.metadata.pack, CargoPack::new succeeds with a config
\* whose fields are both None, and files() is then empty.
C1_AbsentMetadataIsUnspecified ==
    (/\ ret.op = "new"
     /\ ret.out.manifest # 0
     /\ disk[ret.out.manifest].status = "toml"
     /\ ~ReadLookup(disk[ret.out.manifest].root, PackPath).some)
    => (/\ pc = "ready"
        /\ ret.out.how = "return"
        /\ ret.out.result.ok
        /\ config(facade) = UnspecifiedConfig
        /\ files(facade) = <<>>)

\* C2 (as claimed): every run of new or decode_from_manifest ends by
\* returning a value or an error; none ends in a panic.
C2_NeverAborts ==
    /\ pc # "aborted"
    /\ ret.op \in {"new", "decode"} =>
          (ret.out.how = "return" /\ ret.out.result.ok \in BOOLEAN)

\* what the resolution policy asks of one pipeline run over workspace w
PipelineResolves(w, name, out) ==
    IF name.some
    THEN /\ Named(w, name.v) = {} =>
               out = Returned(Err(ErrMsg(<<"unknown package ", name.v>>)), 0)
         /\ Cardinality(Named(w, name.v)) > 1 =>
               out = Returned(Err(ErrMsg(<<"ambiguous name ", name.v>>)), 0)
         /\ Cardinality(Named(w, name.v)) = 1 =>
               out.manifest \in Named(w, name.v)
    ELSE w.current # 0 => out.manifest = w.current

\* what it asks of package() on a facade over workspace w
PackageResolves(w, name, out) ==
    IF name.some
    THEN /\ Named(w, name.v) = {} =>
               out = Err(ErrMsg(<<"unknown package ", name.v>>))
         /\ Cardinality(Named(w, name.v)) > 1 =>
               out = Err(ErrMsg(<<"ambiguous name ", name.v>>))
         /\ Cardinality(Named(w, name.v)) = 1 =>
               /\ out.ok
               /\ out.payload.manifest_path \in Named(w, name.v)
               /\ out.payload.name = name.v
    ELSE w.current # 0 =>
               out = Ok([name |-> w.members[w.current],
                         manifest_path |-> w.current])

\* C3: resolution takes the current member when no name is given, the one
\* member with exactly that name when there is one, and fails with
\* "unknown package" for none and "ambiguous name" for several; in the
\* pipeline runs made, in the package() calls made, and in package() on a
\* facade over the workspace at hand with any requested name.
C3_Resolution ==
    /\ (ret.op = "new" /\ discovery = "ok") =>
          PipelineResolves(EnvWorkspace, ret.arg, ret.out)
    /\ ret.op = "decode" =>
          PipelineResolves(ws(facade), facade.package_name, ret.out)
    /\ ret.op = "package" =>
          PackageResolves(ws(facade), facade.package_name, ret.out)
    /\ \A name \in RequestedNames :
          PackageResolves(EnvWorkspace, name,
              package([ws |-> EnvWorkspace, package_name |-> name,
                       pack_config |-> UnspecifiedConfig]))

C3_Witness ==
    /\ ret.op = "new"
    /\ ret.arg = Some("b")
    /\ Cardinality(Named(EnvWorkspace, "b")) = 2
    /\ ret.out = Returned(Err(ErrMsg(<<"ambiguous name ", "b">>)), 0)
    /\ pc = "failed"

\* C4: on a constructed facade every accessor returns a value: ws() and
\* config() the stored ones, files() a sequence, package() an Ok.
C4_AccessorsNeverFail ==
    /\ ret.op \in {"ws", "config", "files", "package"} => pc = "ready"
    /\ ret.op = "ws" => ret.out = facade.ws
    /\ ret.op = "config" => ret.out = facade.pack_config
    /\ ret.op = "files" => DOMAIN ret.out = 1..Len(ret.out)
    /\ ret.op = "package" => ret.out.ok

C4_Witness ==
    /\ ret.op = "package"
    /\ facade.package_name = Some("a")
    /\ Len(facade.ws.members) > 1
    /\ ret.out.ok
    /\ disk[ret.out.payload.manifest_path].status = "unreadable"

\* C8: files() returns the sequence stored in the config's files field, in
\* its order, or the empty sequence when the field is None, and no step
\* changes the config of a constructed facade.
C8_FilesOfConfig ==
    [][pc = "ready" =>
          /\ facade' = facade
          /\ ret'.op = "files" =>
                ret'.out = IF facade.pack_config.files.some
                           THEN facade.pack_config.files.v
                           ELSE <<>>]_vars

C8_Witness ==
    /\ ret.op = "files"
    /\ facade.pack_config.files = Some(<<"README.md", "LICENSE">>)
    /\ ret.out = <<"README.md", "LICENSE">>

====
